---- MODULE Spec2Model ----
(***************************************************************************)
(* Model of merge_config_json.py: the CustomConfigSorter (the ordering     *)
(* engine) and JsonCompiler.run (load, sort, rewrite the fragment store,   *)
(* merge, write).                                                          *)
(*                                                                         *)
(* A JSON value read from or written to a file is modelled by the value    *)
(* itself (json.load / json.dump of lists, objects and strings); a file is *)
(* a tagged record: [kind |-> "absent"], [kind |-> "file", val |-> v], or  *)
(* [kind |-> "corrupt"] for a file that a failed copy left half-written.   *)
(* A Record is a TLA+ record with a payload field k and an optional field  *)
(* group: a record whose DOMAIN lacks "group" is a malformed Record.       *)
(***************************************************************************)
EXTENDS Integers, Sequences, FiniteSets, TLC

VARIABLES
    pc,              \* position of the run: the method (or statement) about to execute
    error,           \* the exception that ended the run, "none" while there is none
    err_step,        \* the step whose exception propagates out of the run
    main_file,       \* config/main.json
    groups_dir,      \* config/custom/groups
    order_file,      \* config/custom/group_order/order.json
    out_file,        \* config.json in the theme root
    tmp,             \* the TemporaryDirectory of _recreate_custom_config_files
    _main_config,    \* JsonCompiler._main_config
    _custom_config,  \* JsonCompiler._custom_config
    _ordering_data,  \* JsonCompiler._ordering_data
    sorter,          \* the CustomConfigSorter: its _custom_config, loop index, missing_groups
    groups,          \* the local `groups` of _recreate_custom_config_files (insertion-ordered)
    pre_run,         \* history: the live tree as it was before the run
    faults           \* number of I/O failures the environment has injected

vars == <<pc, error, err_step, main_file, groups_dir, order_file, out_file, tmp,
          _main_config, _custom_config, _ordering_data, sorter, groups, pre_run, faults>>

(***************************************************************************)
(* Bounds of the model.                                                    *)
(***************************************************************************)
\* Records of the sequence handed to a stand-alone CustomConfigSorter.
MaxRecords == 4
\* Names of the ordering specification handed to a stand-alone CustomConfigSorter.
MaxSpecLen == 3
\* Records of one fragment file of the pre-run tree.
MaxFileLen == 2
\* Names of the pre-run order.json.
MaxOrderLen == 2
\* I/O failures the environment may inject into one run.
MaxFaults == 2

GroupNames == {"x", "y", "z"}
\* Groups the fragment files of the pre-run tree use ("z" is then always missing).
StoreGroups == {"x", "y"}

Absent == [kind |-> "absent"]
Corrupt == [kind |-> "corrupt"]
File(v) == [kind |-> "file", val |-> v]
Dir(fs) == [kind |-> "dir", files |-> fs]
EmptyMap == [n \in {} |-> Absent]

\* All sequences over S of length 0..n.
SeqsUpTo(S, n) == UNION {[1..m -> S] : m \in 0..n}

Range(s) == {s[i] : i \in 1..Len(s)}

\* Python's s[a:b] for 0 <= a, with 0-based, end-exclusive indices.
Slice(s, a, b) == SubSeq(s, a + 1, IF b > Len(s) THEN Len(s) ELSE b)

\* The Record with payload i, of group g; g = "" for a Record without a group key.
Rec(g, i) == IF g = "" THEN [k |-> i] ELSE [group |-> g, k |-> i]

(***************************************************************************)
(* CustomConfigSorter                                                      *)
(***************************************************************************)
GroupOrderingDataItem == [first_item_index |-> -1, last_item_index |-> -1]

\* GroupOrderingDataItem.is_found; -1 stands for None.
is_found(item) == item.first_item_index # -1 /\ item.last_item_index # -1

HasGroupKey(data_obj) == "group" \in DOMAIN data_obj

\* One iteration of the scan loop of _collect_group_ordering_data_item, for the
\* 0-based index i.
ScanStep(item, data_obj, i, group_name) ==
    LET withFirst == IF item.first_item_index = -1 /\ data_obj.group = group_name
                     THEN [item EXCEPT !.first_item_index = i]
                     ELSE item
    IN  IF data_obj.group = group_name
        THEN [withFirst EXCEPT !.last_item_index = i]
        ELSE withFirst

\* Scan, but a Record without a group key is passed over instead of raising.
RECURSIVE ScanSkippingMalformed(_, _, _, _)
ScanSkippingMalformed(config, group_name, i, item) ==
    IF i >= Len(config)
    THEN [status |-> "ok", item |-> item]
    ELSE IF ~HasGroupKey(config[i + 1])
         THEN ScanSkippingMalformed(config, group_name, i + 1, item)
         ELSE ScanSkippingMalformed(config, group_name, i + 1,
                                    ScanStep(item, config[i + 1], i, group_name))

\* The scan loop from 0-based index i on: a KeyError at the first Record without a
\* group key, otherwise the item after the last Record.
RECURSIVE Scan(_, _, _, _)
Scan(config, group_name, i, item) ==
    IF i >= Len(config)
    THEN [status |-> "ok", item |-> item]
    ELSE IF ~HasGroupKey(config[i + 1])
         THEN [status |-> "KeyError", item |-> item]
         ELSE Scan(config, group_name, i + 1, ScanStep(item, config[i + 1], i, group_name))

_collect_group_ordering_data_item(config, group_name) ==
    LET r == Scan(config, group_name, 0, GroupOrderingDataItem)
    IN  IF r.status = "KeyError"
        THEN r
        ELSE IF ~is_found(r.item)
             THEN [status |-> "SortingGroupDoesNotExist", item |-> r.item]
             ELSE r

\* PopSlices, but the span of group 2 also stays where it was.
PopSlicesKeepingSpan(config, item) ==
    [config |-> config,
     group_2 |-> Slice(config, item.first_item_index, item.last_item_index + 1)]

\* The three slices of _pop_group_2 and the config it leaves.
PopSlices(config, item) ==
    LET before_group_2 == Slice(config, 0, item.first_item_index)
        group_2 == Slice(config, item.first_item_index, item.last_item_index + 1)
        after_group_2 == Slice(config, item.last_item_index + 1, Len(config))
    IN  [config |-> before_group_2 \o after_group_2, group_2 |-> group_2]

_pop_group_2(config, group_name_2) ==
    LET r == _collect_group_ordering_data_item(config, group_name_2)
    IN  IF r.status # "ok"
        THEN [status |-> r.status, config |-> config, group_2 |-> <<>>]
        ELSE [status |-> "ok"] @@ PopSlices(config, r.item)

\* InsertSlices, but split at the last Record of group 1 instead of behind it.
InsertSlicesBeforeLast(config, item, group_2) ==
    LET before_group_2 == Slice(config, 0, item.last_item_index)
        after_group_2 == Slice(config, item.last_item_index, Len(config))
    IN  before_group_2 \o group_2 \o after_group_2

\* The splice of _insert_group_2_after_group_1.
InsertSlices(config, item, group_2) ==
    LET before_group_2 == Slice(config, 0, item.last_item_index + 1)
        after_group_2 == Slice(config, item.last_item_index + 1, Len(config))
    IN  before_group_2 \o group_2 \o after_group_2

\* _insert_group_2_after_group_1, but when group 1 has no Record the popped
\* span is put back at the end.
_insert_group_2_or_put_back(config, group_name_1, group_2) ==
    LET r == _collect_group_ordering_data_item(config, group_name_1)
    IN  IF r.status = "KeyError"
        THEN [status |-> r.status, config |-> config]
        ELSE IF r.status = "SortingGroupDoesNotExist"
             THEN [status |-> "ok", config |-> config \o group_2]
             ELSE [status |-> "ok", config |-> InsertSlices(config, r.item, group_2)]

_insert_group_2_after_group_1(config, group_name_1, group_2) ==
    LET r == _collect_group_ordering_data_item(config, group_name_1)
    IN  IF r.status # "ok"
        THEN [status |-> r.status, config |-> config]
        ELSE [status |-> "ok", config |-> InsertSlices(config, r.item, group_2)]

\* NewSorter, but the sorter starts from an empty list instead of the copy.
NewSorterDroppingConfig(custom_config) ==
    [custom_config |-> <<>>, i |-> 1, missing_groups |-> {}]

\* CustomConfigSorter.__init__: the sorter works on a deep copy of the config.
NewSorter(custom_config) ==
    [custom_config |-> custom_config, i |-> 1, missing_groups |-> {}]

NoSorter == [custom_config |-> <<>>, i |-> 0, missing_groups |-> {}]

Fail(exc, step) ==
    /\ pc' = "failed"
    /\ error' = exc
    /\ err_step' = step

\* One iteration of the loop of get_sorted_custom_config, over the pair
\* (ordering_data[i], ordering_data[i+1]).
SortPair ==
    /\ pc = "sorting"
    /\ sorter.i < Len(_ordering_data)
    /\ LET group_name_1 == _ordering_data[sorter.i]
           group_name_2 == _ordering_data[sorter.i + 1]
           popped == _pop_group_2(sorter.custom_config, group_name_2)
           inserted == _insert_group_2_after_group_1(popped.config, group_name_1,
                                                     popped.group_2)
       IN  CASE popped.status = "KeyError" ->
                    /\ Fail("KeyError", "sort")
                    /\ UNCHANGED sorter
             [] popped.status = "SortingGroupDoesNotExist" ->
                    /\ sorter' = [sorter EXCEPT !.i = @ + 1,
                                                !.missing_groups = @ \cup {group_name_2}]
                    /\ UNCHANGED <<pc, error, err_step>>
             [] popped.status = "ok" /\ inserted.status = "KeyError" ->
                    /\ Fail("KeyError", "sort")
                    /\ sorter' = [sorter EXCEPT !.custom_config = popped.config]
             [] popped.status = "ok" /\ inserted.status = "SortingGroupDoesNotExist" ->
                    /\ sorter' = [sorter EXCEPT !.i = @ + 1,
                                                !.custom_config = popped.config,
                                                !.missing_groups = @ \cup {group_name_1}]
                    /\ UNCHANGED <<pc, error, err_step>>
             [] OTHER ->
                    /\ sorter' = [sorter EXCEPT !.i = @ + 1,
                                                !.custom_config = inserted.config]
                    /\ UNCHANGED <<pc, error, err_step>>
    /\ UNCHANGED <<main_file, groups_dir, order_file, out_file, tmp, _main_config,
                   _custom_config, _ordering_data, groups, pre_run, faults>>

\* The loop is over: get_sorted_custom_config returns the sorter's config.
SortReturn ==
    /\ pc = "sorting"
    /\ sorter.i >= Len(_ordering_data)
    /\ pc' = "sort_returned"
    /\ UNCHANGED <<error, err_step, main_file, groups_dir, order_file, out_file, tmp,
                   _main_config, _custom_config, _ordering_data, sorter, groups,
                   pre_run, faults>>

(***************************************************************************)
(* JSON values and the files of the theme tree                             *)
(***************************************************************************)
JList(items) == [kind |-> "list", items |-> items]
JDict(map) == [kind |-> "dict", map |-> map]
JText == [kind |-> "text"]

\* A file name: Path.stem and Path.suffix (without the dot).
FileName(stem, ext) == [stem |-> stem, ext |-> ext]

\* Stems in the order sorted() gives the paths of the fragment files.
StemOrder == <<"x", "y", "z">>

\* f"{group_name}.json"
GroupFileName(group_name) == FileName(group_name, "json")

(***************************************************************************)
(* JsonCompiler                                                            *)
(***************************************************************************)
UnchangedTree == UNCHANGED <<main_file, groups_dir, order_file, out_file>>

\* _load_main_config
LoadMainConfig ==
    /\ pc = "load_main_config"
    /\ IF main_file.kind # "file"
       THEN Fail("FileNotFoundError", "load_main_config") /\ UNCHANGED _main_config
       ELSE IF main_file.val.kind # "dict"
            THEN Fail("TypeError", "load_main_config") /\ UNCHANGED _main_config
            ELSE /\ _main_config' = main_file.val.map
                 /\ pc' = "load_custom_config"
                 /\ UNCHANGED <<error, err_step>>
    /\ UnchangedTree
    /\ UNCHANGED <<tmp, _custom_config, _ordering_data, sorter, groups, pre_run, faults>>

\* sorted(self._custom_config_groups_dir.glob("*.json"))
custom_config_files(dir) ==
    SelectSeq([i \in 1..Len(StemOrder) |-> GroupFileName(StemOrder[i])],
              LAMBDA n : n \in DOMAIN dir.files)

\* The loop of _load_custom_config from file number i on: a TypeError at the first
\* file that does not hold a list, otherwise the extended config.
RECURSIVE LoadFiles(_, _, _, _)
LoadFiles(dir, names, i, config) ==
    IF i > Len(names)
    THEN [status |-> "ok", config |-> config]
    ELSE LET data == dir.files[names[i]].val
         IN  IF data.kind # "list"
             THEN [status |-> "TypeError", config |-> config]
             ELSE LoadFiles(dir, names, i + 1, config \o data.items)

\* _load_custom_config
LoadCustomConfig ==
    /\ pc = "load_custom_config"
    /\ IF groups_dir.kind # "dir"
       THEN pc' = "sort_custom_config" /\ UNCHANGED <<error, err_step, _custom_config>>
       ELSE LET loaded == LoadFiles(groups_dir, custom_config_files(groups_dir), 1,
                                    _custom_config)
            IN  IF loaded.status = "TypeError"
                THEN /\ Fail("TypeError", "load_custom_config")
                     /\ _custom_config' = loaded.config
                ELSE /\ _custom_config' = loaded.config
                     /\ pc' = "sort_custom_config"
                     /\ UNCHANGED <<error, err_step>>
    /\ UnchangedTree
    /\ UNCHANGED <<tmp, _main_config, _ordering_data, sorter, groups, pre_run, faults>>

\* OrderingTooShort, but with the bound off by one.
OrderingTooShortOffByOne(ordering_data) == Len(ordering_data) < 1

\* len(self._ordering_data) < 2
OrderingTooShort(ordering_data) == Len(ordering_data) < 2

\* _sort_custom_config up to the construction of the CustomConfigSorter.
SortCustomConfig ==
    /\ pc = "sort_custom_config"
    /\ IF order_file.kind # "file"
       THEN /\ pc' = "recreate_custom_config_files"
            /\ UNCHANGED <<error, err_step, _ordering_data, sorter>>
       ELSE /\ _ordering_data' = order_file.val.items
            /\ IF Len(_ordering_data') = 0
               THEN /\ pc' = "recreate_custom_config_files"
                    /\ UNCHANGED <<error, err_step, sorter>>
               ELSE IF OrderingTooShort(_ordering_data')
                    THEN Fail("ValueError", "sort_custom_config") /\ UNCHANGED sorter
                    ELSE /\ sorter' = NewSorter(_custom_config)
                         /\ pc' = "sorting"
                         /\ UNCHANGED <<error, err_step>>
    /\ UnchangedTree
    /\ UNCHANGED <<tmp, _main_config, _custom_config, groups, pre_run, faults>>

\* self._custom_config = CustomConfigSorter(...).get_sorted_custom_config()
AssignSorted ==
    /\ pc = "sort_returned"
    /\ _custom_config' = sorter.custom_config
    /\ pc' = "recreate_custom_config_files"
    /\ UnchangedTree
    /\ UNCHANGED <<error, err_step, tmp, _main_config, _ordering_data, sorter, groups,
                   pre_run, faults>>

(***************************************************************************)
(* _recreate_custom_config_files                                           *)
(***************************************************************************)
\* GroupKeys, but the names come in sorted order instead of insertion order.
GroupKeysSorted(gs) ==
    SelectSeq(StemOrder, LAMBDA n : \E i \in 1..Len(gs) : gs[i].name = n)

\* list(groups): the keys of the defaultdict, in insertion order.
GroupKeys(gs) == [i \in 1..Len(gs) |-> gs[i].name]

\* AppendToGroup, but a new group goes in front of the groups seen before.
AppendToGroupInFront(gs, config_obj) ==
    IF \E i \in 1..Len(gs) : gs[i].name = config_obj.group
    THEN [i \in 1..Len(gs) |->
             IF gs[i].name = config_obj.group
             THEN [gs[i] EXCEPT !.items = Append(@, config_obj)]
             ELSE gs[i]]
    ELSE <<[name |-> config_obj.group, items |-> <<config_obj>>]>> \o gs

\* groups[config_obj["group"]].append(config_obj)
AppendToGroup(gs, config_obj) ==
    IF \E i \in 1..Len(gs) : gs[i].name = config_obj.group
    THEN [i \in 1..Len(gs) |->
             IF gs[i].name = config_obj.group
             THEN [gs[i] EXCEPT !.items = Append(@, config_obj)]
             ELSE gs[i]]
    ELSE Append(gs, [name |-> config_obj.group, items |-> <<config_obj>>])

\* The partition loop from Record number i on: a KeyError at the first Record
\* without a group key.
RECURSIVE PartitionFrom(_, _, _)
PartitionFrom(config, i, gs) ==
    IF i > Len(config)
    THEN [status |-> "ok", groups |-> gs]
    ELSE IF ~HasGroupKey(config[i])
         THEN [status |-> "KeyError", groups |-> gs]
         ELSE PartitionFrom(config, i + 1, AppendToGroup(gs, config[i]))

\* The files written into groups_tmp_dir, one json.dump per key of groups; a later
\* key with the same file name overwrites the earlier file.
RECURSIVE GroupFiles(_, _, _)
GroupFiles(gs, i, files) ==
    IF i > Len(gs)
    THEN files
    ELSE GroupFiles(gs, i + 1,
                    [n \in DOMAIN files \cup {GroupFileName(gs[i].name)} |->
                        IF n = GroupFileName(gs[i].name)
                        THEN File(JList(gs[i].items))
                        ELSE files[n]])

NewTmp(gs) ==
    [kind |-> "dir",
     groups |-> Dir(GroupFiles(gs, 1, EmptyMap)),
     group_order |-> File(JList(GroupKeys(gs))),
     backup_group_order |-> Absent,
     backup_groups |-> Absent]

\* What a failed write of a file may leave at its destination.
FailedCopy(dest) == {dest, Corrupt}
\* What a failed rmtree may leave of the directory.
FailedRmtree(dir) == {dir, Dir(EmptyMap)}
\* What a failed copytree may leave at its (absent) destination.
FailedCopytree == {Absent, Dir(EmptyMap)}

\* RaiseInWith, but the temporary directory outlives the exception.
RaiseLeavingTmp(exc, step) ==
    /\ Fail(exc, step)
    /\ UNCHANGED tmp

\* An exception leaves the `with tempfile.TemporaryDirectory()` block.
RaiseInWith(exc, step) ==
    /\ Fail(exc, step)
    /\ tmp' = Absent

InjectFault ==
    /\ faults < MaxFaults
    /\ faults' = faults + 1

\* Lines 230-232: partition the Record Sequence by group.
RecreatePartition ==
    /\ pc = "recreate_custom_config_files"
    /\ LET r == PartitionFrom(_custom_config, 1, <<>>)
       IN  IF r.status = "KeyError"
           THEN Fail("KeyError", "partition") /\ UNCHANGED groups
           ELSE /\ groups' = r.groups
                /\ pc' = "build_scratch"
                /\ UNCHANGED <<error, err_step>>
    /\ UnchangedTree
    /\ UNCHANGED <<tmp, _main_config, _custom_config, _ordering_data, sorter, pre_run,
                   faults>>

\* Lines 234-245: build the new store in the temporary directory.
RecreateBuildScratch ==
    /\ pc = "build_scratch"
    /\ \/ /\ tmp' = NewTmp(groups)
          /\ pc' = "backup"
          /\ UNCHANGED <<error, err_step, faults>>
       \/ /\ InjectFault
          /\ RaiseInWith("OSError", "build")
    /\ UnchangedTree
    /\ UNCHANGED <<_main_config, _custom_config, _ordering_data, sorter, groups, pre_run>>

\* Lines 255-262: snapshot the live store into the backup directory.
RecreateBackup ==
    /\ pc = "backup"
    /\ \/ /\ order_file.kind = "absent"
          /\ RaiseInWith("FileNotFoundError", "backup")
          /\ UNCHANGED faults
       \/ /\ order_file.kind # "absent"
          /\ groups_dir.kind = "absent"
          /\ RaiseInWith("FileNotFoundError", "backup")
          /\ UNCHANGED faults
       \/ /\ order_file.kind # "absent"
          /\ groups_dir.kind # "absent"
          /\ tmp' = [tmp EXCEPT !.backup_group_order = order_file,
                                !.backup_groups = groups_dir]
          /\ pc' = "replace_order"
          /\ UNCHANGED <<error, err_step, faults>>
       \/ /\ InjectFault
          /\ RaiseInWith("OSError", "backup")
    /\ UnchangedTree
    /\ UNCHANGED <<_main_config, _custom_config, _ordering_data, sorter, groups, pre_run>>

\* EnterExcept, but the exception propagates without the restoration.
EnterExceptWithoutRestore(exc) ==
    /\ pc' = "failed"
    /\ error' = exc
    /\ err_step' = "replace"

\* An exception inside the try block: control passes to the except clause, which
\* re-raises this exception once the restoration is through.
EnterExcept(exc) ==
    /\ pc' = "restore_order"
    /\ error' = exc
    /\ err_step' = "replace"

\* Line 265: shutil.copy(group_order_file_path, self._group_order_file_path)
ReplaceOrder ==
    /\ pc = "replace_order"
    /\ \/ /\ order_file' = tmp.group_order
          /\ pc' = "replace_rmtree"
          /\ UNCHANGED <<error, err_step, faults>>
       \/ /\ InjectFault
          /\ order_file' \in FailedCopy(order_file)
          /\ EnterExcept("OSError")
    /\ UNCHANGED <<main_file, groups_dir, out_file, tmp, _main_config, _custom_config,
                   _ordering_data, sorter, groups, pre_run>>

\* Lines 266-267: remove the live groups directory if it exists.
ReplaceRmtree ==
    /\ pc = "replace_rmtree"
    /\ \/ /\ groups_dir' = Absent
          /\ pc' = "replace_copytree"
          /\ UNCHANGED <<error, err_step, faults>>
       \/ /\ groups_dir.kind = "dir"
          /\ InjectFault
          /\ groups_dir' \in FailedRmtree(groups_dir)
          /\ EnterExcept("OSError")
    /\ UNCHANGED <<main_file, order_file, out_file, tmp, _main_config, _custom_config,
                   _ordering_data, sorter, groups, pre_run>>

\* Line 268, then the end of the with block: copy the new groups directory in.
ReplaceCopytree ==
    /\ pc = "replace_copytree"
    /\ \/ /\ groups_dir.kind = "absent"
          /\ groups_dir' = tmp.groups
          /\ tmp' = Absent
          /\ pc' = "replace_config_in_root"
          /\ UNCHANGED <<error, err_step, faults>>
       \/ /\ groups_dir.kind = "absent"
          /\ InjectFault
          /\ groups_dir' \in FailedCopytree
          /\ EnterExcept("OSError")
          /\ UNCHANGED tmp
       \/ /\ groups_dir.kind # "absent"
          /\ EnterExcept("FileExistsError")
          /\ UNCHANGED <<groups_dir, tmp, faults>>
    /\ UNCHANGED <<main_file, order_file, out_file, _main_config, _custom_config,
                   _ordering_data, sorter, groups, pre_run>>

\* Line 273: shutil.copy(backup_group_order_file_path, self._group_order_file_path)
RestoreOrder ==
    /\ pc = "restore_order"
    /\ \/ /\ order_file' = tmp.backup_group_order
          /\ pc' = "restore_rmtree"
          /\ UNCHANGED <<error, err_step, tmp, faults>>
       \/ /\ InjectFault
          /\ order_file' \in FailedCopy(order_file)
          /\ RaiseInWith("OSError", "restore")
    /\ UNCHANGED <<main_file, groups_dir, out_file, _main_config, _custom_config,
                   _ordering_data, sorter, groups, pre_run>>

\* Lines 274-275: remove the live groups directory if it exists.
RestoreRmtree ==
    /\ pc = "restore_rmtree"
    /\ \/ /\ groups_dir' = Absent
          /\ pc' = "restore_copytree"
          /\ UNCHANGED <<error, err_step, tmp, faults>>
       \/ /\ groups_dir.kind = "dir"
          /\ InjectFault
          /\ groups_dir' \in FailedRmtree(groups_dir)
          /\ RaiseInWith("OSError", "restore")
    /\ UNCHANGED <<main_file, order_file, out_file, _main_config, _custom_config,
                   _ordering_data, sorter, groups, pre_run>>

\* Lines 276-277: copy the backup of the groups directory in, then re-raise.
RestoreCopytree ==
    /\ pc = "restore_copytree"
    /\ \/ /\ groups_dir' = tmp.backup_groups
          /\ pc' = "failed"
          /\ tmp' = Absent
          /\ UNCHANGED <<error, err_step, faults>>
       \/ /\ InjectFault
          /\ groups_dir' \in FailedCopytree
          /\ RaiseInWith("OSError", "restore")
    /\ UNCHANGED <<main_file, order_file, out_file, _main_config, _custom_config,
                   _ordering_data, sorter, groups, pre_run>>

\* merged = copy.deepcopy(self._main_config); merged["customConfig"] = self._custom_config
_get_joined_main_and_custom_config(main_config, custom_config) ==
    [key \in DOMAIN main_config \cup {"customConfig"} |->
        IF key = "customConfig" THEN custom_config ELSE main_config[key]]

\* ReplaceConfigInRoot, but the merged output is also written while the store
\* rewrite has yet to begin.
ReplaceConfigInRootBeforeRewrite ==
    /\ pc \in {"recreate_custom_config_files", "replace_config_in_root"}
    /\ out_file' = File(JDict(_get_joined_main_and_custom_config(_main_config,
                                                                 _custom_config)))
    /\ pc' = IF pc = "replace_config_in_root" THEN "done" ELSE pc
    /\ UNCHANGED <<error, err_step, faults, main_file, groups_dir, order_file, tmp,
                   _main_config, _custom_config, _ordering_data, sorter, groups,
                   pre_run>>

\* _get_joined_main_and_custom_config, then _replace_config_in_root
ReplaceConfigInRoot ==
    /\ pc = "replace_config_in_root"
    /\ \/ /\ out_file' = File(JDict(_get_joined_main_and_custom_config(_main_config,
                                                                       _custom_config)))
          /\ pc' = "done"
          /\ UNCHANGED <<error, err_step, faults>>
       \/ /\ InjectFault
          /\ out_file' \in FailedCopy(out_file)
          /\ Fail("OSError", "write")
    /\ UNCHANGED <<main_file, groups_dir, order_file, tmp, _main_config, _custom_config,
                   _ordering_data, sorter, groups, pre_run>>

(***************************************************************************)
(* The theme tree before a run, and JsonCompiler.run                       *)
(***************************************************************************)
MainFiles == {Absent, File(JList(<<>>)), File(JDict([a |-> 1]))}

\* The config.json an earlier run left behind.
StaleOutput == File(JDict([a |-> 0, customConfig |-> <<>>]))

OrderFiles == {Absent} \cup {File(JList(s)) : s \in SeqsUpTo(GroupNames, MaxOrderLen)}

\* Fragment file number r (in sorted order) holds either something that is no list
\* or a list of Records; Record i of file r carries the payload 10 * r + i.
FragmentContents(r) ==
    {File(JDict(EmptyMap))}
    \cup {File(JList([i \in 1..Len(s) |-> Rec(s[i], 10 * r + i)])) :
             s \in SeqsUpTo(StoreGroups \cup {""}, MaxFileLen)}

NotesName == FileName("notes", "txt")

\* The groups directory that holds x.json with cx, y.json with cy and notes.txt
\* with cn, each of them unless it is Absent.
DirOf(cx, cy, cn) ==
    LET content == (GroupFileName(StemOrder[1]) :> cx)
                   @@ (GroupFileName(StemOrder[2]) :> cy)
                   @@ (NotesName :> cn)
    IN  Dir([n \in {m \in DOMAIN content : content[m] # Absent} |-> content[n]])

GroupsDirs ==
    {Absent}
    \cup {DirOf(cx, cy, cn) : cx \in FragmentContents(1) \cup {Absent},
                              cy \in FragmentContents(2) \cup {Absent},
                              cn \in {File(JText), Absent}}

\* JsonCompiler.__init__
Init ==
    /\ pc = "load_main_config"
    /\ error = "none"
    /\ err_step = "none"
    /\ main_file \in MainFiles
    /\ groups_dir \in GroupsDirs
    /\ order_file \in OrderFiles
    /\ out_file \in {Absent, StaleOutput}
    /\ tmp = Absent
    /\ _main_config = EmptyMap
    /\ _custom_config = <<>>
    /\ _ordering_data = <<>>
    /\ sorter = NoSorter
    /\ groups = <<>>
    /\ pre_run = [groups_dir |-> groups_dir, order_file |-> order_file,
                  out_file |-> out_file]
    /\ faults = 0

Next ==
    \/ LoadMainConfig
    \/ LoadCustomConfig
    \/ SortCustomConfig
    \/ SortPair
    \/ SortReturn
    \/ AssignSorted
    \/ RecreatePartition
    \/ RecreateBuildScratch
    \/ RecreateBackup
    \/ ReplaceOrder
    \/ ReplaceRmtree
    \/ ReplaceCopytree
    \/ RestoreOrder
    \/ RestoreRmtree
    \/ RestoreCopytree
    \/ ReplaceConfigInRoot

Spec == Init /\ [][Next]_vars

(***************************************************************************)
(* A stand-alone CustomConfigSorter: any Record Sequence, any ordering     *)
(* data (get_sorted_custom_config itself puts no condition on its length). *)
(***************************************************************************)
RecordSeqs(gs, n) == {[i \in 1..Len(s) |-> Rec(s[i], i)] : s \in SeqsUpTo(gs, n)}

InitSort ==
    /\ pc = "sorting"
    /\ error = "none"
    /\ err_step = "none"
    /\ main_file = Absent
    /\ groups_dir = Absent
    /\ order_file = Absent
    /\ out_file = Absent
    /\ tmp = Absent
    /\ _main_config = EmptyMap
    /\ _custom_config \in RecordSeqs(GroupNames \cup {""}, MaxRecords)
    /\ _ordering_data \in SeqsUpTo(GroupNames, MaxSpecLen)
    /\ sorter = NewSorter(_custom_config)
    /\ groups = <<>>
    /\ pre_run = [groups_dir |-> Absent, order_file |-> Absent, out_file |-> Absent]
    /\ faults = 0

NextSort == SortPair \/ SortReturn

SpecSort == InitSort /\ [][NextSort]_vars

(***************************************************************************)
(* Both entry points: JsonCompiler.run, and get_sorted_custom_config       *)
(* called on its own.                                                      *)
(***************************************************************************)
InitBoth == Init \/ InitSort

\* The sorter was constructed by _sort_custom_config, which has read main.json
\* before; only then is there an assignment for its result to return to.
CalledFromRun == main_file.kind = "file"

NextBoth ==
    \/ LoadMainConfig
    \/ LoadCustomConfig
    \/ SortCustomConfig
    \/ SortPair
    \/ SortReturn
    \/ CalledFromRun /\ AssignSorted
    \/ RecreatePartition
    \/ RecreateBuildScratch
    \/ RecreateBackup
    \/ ReplaceOrder
    \/ ReplaceRmtree
    \/ ReplaceCopytree
    \/ RestoreOrder
    \/ RestoreRmtree
    \/ RestoreCopytree
    \/ ReplaceConfigInRoot

SpecBoth == InitBoth /\ [][NextBoth]_vars

(***************************************************************************)
(* Run after run: the program is started again on the tree a successful    *)
(* run has left.                                                           *)
(***************************************************************************)
\* A new process: JsonCompiler.__init__ over the tree as it is now.
Rerun ==
    /\ pc = "done"
    /\ pc' = "load_main_config"
    /\ error' = "none"
    /\ err_step' = "none"
    /\ tmp' = Absent
    /\ _main_config' = EmptyMap
    /\ _custom_config' = <<>>
    /\ _ordering_data' = <<>>
    /\ sorter' = NoSorter
    /\ groups' = <<>>
    /\ pre_run' = [groups_dir |-> groups_dir, order_file |-> order_file,
                   out_file |-> out_file]
    /\ faults' = 0
    /\ UnchangedTree

NextRerun == Next \/ Rerun

SpecRerun == Init /\ [][NextRerun]_vars

(***************************************************************************)
(* Vocabulary of the properties                                            *)
(***************************************************************************)
\* Positions (1-based) of the Records of group g in the sequence s.
Positions(s, g) == {i \in 1..Len(s) : HasGroupKey(s[i]) /\ s[i].group = g}

WellFormed(s) == \A i \in 1..Len(s) : HasGroupKey(s[i])

\* Every group occupies one contiguous span of s.
Contiguous(s) ==
    \A i, j \in 1..Len(s) :
        (i < j /\ s[i].group = s[j].group) =>
            \A m \in i..j : s[m].group = s[i].group

NoRepeatedName(names) ==
    \A i, j \in 1..Len(names) : names[i] = names[j] => i = j

MinOf(S) == CHOOSE m \in S : \A n \in S : m <= n
MaxOf(S) == CHOOSE m \in S : \A n \in S : n <= m

\* The span of g2 starts right after the last Record of g1.
FollowsImmediately(s, g1, g2) ==
    /\ Positions(s, g1) # {}
    /\ Positions(s, g2) # {}
    /\ MinOf(Positions(s, g2)) = MaxOf(Positions(s, g1)) + 1

\* get_sorted_custom_config has returned: its input is still in _custom_config,
\* its result is the sorter's config.
Returned == pc = "sort_returned"
SortInput == _custom_config
SortOutput == sorter.custom_config

\* The precondition of C1 and C2: a chain of at least two names, each with a
\* Record, over an input whose groups are contiguous.
ChainInput ==
    /\ Len(_ordering_data) >= 2
    /\ WellFormed(SortInput)
    /\ Contiguous(SortInput)
    /\ \A n \in Range(_ordering_data) : Positions(SortInput, n) # {}

ChainInOrder ==
    \A i \in 1..(Len(_ordering_data) - 1) :
        FollowsImmediately(SortOutput, _ordering_data[i], _ordering_data[i + 1])

\* C1 as claimed: whenever every named group exists and all groups are contiguous
\* in the input, each named group's span starts right after the span of the name
\* before it in the returned sequence.
C1_AsClaimed == (Returned /\ ChainInput) => ChainInOrder

\* C1 (amended): the same, for ordering specifications that name no group twice.
C1_ChainInOrder ==
    (Returned /\ ChainInput /\ NoRepeatedName(_ordering_data)) => ChainInOrder

\* A chain of three names was applied to an input it had to rearrange.
C1_Witness ==
    /\ Returned
    /\ ChainInput
    /\ NoRepeatedName(_ordering_data)
    /\ Len(_ordering_data) = 3
    /\ Len(SortInput) = 4
    /\ SortOutput # SortInput

\* The Records are pairwise distinct (distinct payloads), so the output is a
\* permutation of the input iff both have the same length and the same Records.
IsPermutation(s, t) == Len(s) = Len(t) /\ Range(s) = Range(t)

\* C2: whenever every named group exists and all groups are contiguous in the
\* input, the returned sequence is a permutation of the input.
C2_Permutation == (Returned /\ ChainInput) => IsPermutation(SortInput, SortOutput)

\* Record r stands before Record q in s.
Before(s, r, q) ==
    \E i, j \in 1..Len(s) : i < j /\ s[i] = r /\ s[j] = q

\* C3: for every Record Sequence and ordering specification, two Records of one
\* group that are both in the returned sequence stand in the order they had in
\* the input.
C3_IntraGroupOrder ==
    (Returned /\ WellFormed(SortInput)) =>
        \A r, q \in Range(SortOutput) :
            (r.group = q.group /\ Before(SortOutput, r, q)) => Before(SortInput, r, q)

(***************************************************************************)
(* Vocabulary of the properties of a run                                   *)
(***************************************************************************)
Ended == pc \in {"done", "failed"}
NoFault == faults = 0

MainIsObject == main_file.kind = "file" /\ main_file.val.kind = "dict"

\* The fragment files of the pre-run tree all hold lists.
FragmentsAreLists ==
    /\ pre_run.groups_dir.kind = "dir"
    /\ \A n \in DOMAIN pre_run.groups_dir.files :
           n.ext = "json" => pre_run.groups_dir.files[n].val.kind = "list"

\* The Record Sequence the pre-run tree holds: its fragment files in sorted order.
Loaded ==
    IF pre_run.groups_dir.kind = "dir"
    THEN LoadFiles(pre_run.groups_dir, custom_config_files(pre_run.groups_dir), 1, <<>>).config
    ELSE <<>>

\* The ordering specification of the pre-run tree (none: the empty sequence).
HasOrderFile == pre_run.order_file.kind = "file"
OrderNames == IF HasOrderFile THEN pre_run.order_file.val.items ELSE <<>>

\* No file the run may write differs from the pre-run tree.
TreeUntouched ==
    /\ order_file = pre_run.order_file
    /\ groups_dir = pre_run.groups_dir
    /\ out_file = pre_run.out_file

MergedOutput(records) == File(JDict([a |-> 1, customConfig |-> records]))

\* C4: an ordering specification of length >= 2 that names a group without a
\* Record leaves the Record Sequence as loaded, and the run succeeds and writes
\* the merged output with it.
C4_MissingGroupIsNoOp ==
    (/\ Ended
     /\ NoFault
     /\ MainIsObject
     /\ FragmentsAreLists
     /\ WellFormed(Loaded)
     /\ Len(OrderNames) >= 2
     /\ \E n \in Range(OrderNames) : Positions(Loaded, n) = {})
    => (/\ pc = "done"
        /\ _custom_config = Loaded
        /\ out_file = MergedOutput(Loaded))

\* _recreate_custom_config_files has ended: by returning, or by an exception of
\* one of its steps.
RecreateReturned ==
    \/ pc \in {"replace_config_in_root", "done"}
    \/ pc = "failed" /\ err_step = "write"
RecreateRaised ==
    pc = "failed" /\ err_step \in {"partition", "build", "backup", "replace", "restore"}

LiveIsPreRun ==
    /\ order_file = pre_run.order_file
    /\ groups_dir = pre_run.groups_dir
LiveIsNew ==
    /\ order_file = NewTmp(groups).group_order
    /\ groups_dir = NewTmp(groups).groups
\* The manifest of one version beside the group files of the other.
Mixed ==
    /\ ~LiveIsPreRun
    /\ ~LiveIsNew
    /\ \/ order_file = NewTmp(groups).group_order /\ groups_dir = pre_run.groups_dir
       \/ order_file = pre_run.order_file /\ groups_dir = NewTmp(groups).groups

RestoredOnFailure ==
    (pc = "failed" /\ err_step = "replace") => (LiveIsPreRun /\ error = "OSError")
NewOnSuccess == RecreateReturned => LiveIsNew

NoFragments ==
    \/ pre_run.groups_dir.kind = "absent"
    \/ /\ pre_run.groups_dir.kind = "dir"
       /\ \A n \in DOMAIN pre_run.groups_dir.files : n.ext # "json"

\* C6: with no groups directory, or none of its files a fragment file, the run
\* ends without error and writes the merged output with an empty fragment array
\* (main config an object, ordering manifest present and not of length 1).
C6_NoFragmentsSucceeds ==
    (/\ Ended
     /\ NoFault
     /\ MainIsObject
     /\ HasOrderFile
     /\ Len(OrderNames) # 1
     /\ NoFragments)
    => (pc = "done" /\ error = "none" /\ out_file = MergedOutput(<<>>))

\* C7: with no ordering manifest the sort is skipped and the run goes on: the
\* store is rewritten, the merged output holds the Record Sequence as loaded, and
\* the run ends without error.
C7_NoOrderFileSucceeds ==
    (/\ Ended
     /\ NoFault
     /\ MainIsObject
     /\ FragmentsAreLists
     /\ WellFormed(Loaded)
     /\ ~HasOrderFile)
    => (/\ pc = "done"
        /\ error = "none"
        /\ LiveIsNew
        /\ out_file = MergedOutput(Loaded))

\* _sort_custom_config has been executed.
SortExecuted ==
    /\ pc \notin {"load_main_config", "load_custom_config", "sort_custom_config"}
    /\ ~(pc = "failed" /\ err_step \in {"load_main_config", "load_custom_config"})

\* C8: once _sort_custom_config has read an ordering specification of length 1,
\* the run has failed with ValueError and no file differs from the pre-run tree.
C8_LengthOneFailsFirst ==
    (SortExecuted /\ Len(OrderNames) = 1)
    => (/\ pc = "failed"
        /\ error = "ValueError"
        /\ TreeUntouched
        /\ tmp = Absent)

\* A run over a tree with fragments and a stale output failed on a manifest of
\* length 1.
C8_Witness ==
    /\ pc = "failed"
    /\ error = "ValueError"
    /\ Len(OrderNames) = 1
    /\ Len(Loaded) > 0
    /\ out_file = StaleOutput

\* A Record without a group key has been loaded, and the ordering manifest is
\* absent, empty or of length >= 2.
MalformedLoaded ==
    /\ MainIsObject
    /\ FragmentsAreLists
    /\ ~WellFormed(Loaded)
    /\ Len(OrderNames) # 1

\* C9: a run that loads a Record without a group key fails with KeyError at the
\* first group lookup (the first pair of the sorter, or the partition of the
\* rewriter when the sort is skipped), and never writes a file: it gets no
\* further than that lookup, whose step is always enabled, and if it has failed
\* it has failed with KeyError.
C9_MalformedRecordFailsFirst ==
    MalformedLoaded
    => (/\ TreeUntouched
        /\ tmp = Absent
        /\ pc \in {"load_main_config", "load_custom_config", "sort_custom_config",
                   "sorting", "recreate_custom_config_files", "failed"}
        /\ pc = "sorting" => (sorter.i = 1 /\ sorter.i < Len(_ordering_data))
        /\ pc = "recreate_custom_config_files" => Len(OrderNames) = 0
        /\ pc = "failed" => error = "KeyError")

\* The sorter raised the KeyError for a malformed Record that stands last in the
\* loaded sequence, behind Records of the group looked up.
C9_Witness ==
    /\ MalformedLoaded
    /\ pc = "failed"
    /\ error = "KeyError"
    /\ err_step = "sort"
    /\ Len(Loaded) >= 2
    /\ HasGroupKey(Loaded[1])
    /\ Loaded[1].group = OrderNames[2]

\* The Records of group g in s, in sequence order.
RecordsOf(s, g) == SelectSeq(s, LAMBDA r : r.group = g)

\* C10: after _recreate_custom_config_files has returned, the live manifest lists
\* the distinct groups of the Record Sequence, each once, in the order of their
\* first Records, and the groups directory holds exactly one file per listed
\* name, with that group's Records in sequence order.
C10_StoreMatchesSequence ==
    RecreateReturned
    => (/\ order_file.kind = "file"
        /\ order_file.val.kind = "list"
        /\ LET names == order_file.val.items
           IN  /\ NoRepeatedName(names)
               /\ Range(names) = {_custom_config[i].group : i \in 1..Len(_custom_config)}
               /\ \A i, j \in 1..Len(names) :
                      i < j => MinOf(Positions(_custom_config, names[i]))
                                 < MinOf(Positions(_custom_config, names[j]))
               /\ groups_dir.kind = "dir"
               /\ DOMAIN groups_dir.files = {GroupFileName(n) : n \in Range(names)}
               /\ Cardinality(DOMAIN groups_dir.files) = Len(names)
               /\ \A n \in Range(names) :
                      groups_dir.files[GroupFileName(n)]
                          = File(JList(RecordsOf(_custom_config, n))))

\* A store was rewritten for a sequence of two groups whose first-seen order is
\* not the sorted order of their names, one of them with two Records.
C10_Witness ==
    /\ RecreateReturned
    /\ order_file = File(JList(<<"y", "x">>))
    /\ Len(_custom_config) = 3

(***************************************************************************)
(* The merged output                                                       *)
(***************************************************************************)
\* The run has ended with a fatal error in loading, ordering or the store rewrite.
FailedBeforeWrite == pc = "failed" /\ err_step # "write"

\* C11: the merged output differs from its pre-run contents only once the store
\* rewrite has returned and the write has been attempted; a run that has failed
\* in loading, ordering or the store rewrite leaves the output file as it was.
C11_OutputOnlyAfterRewrite ==
    /\ FailedBeforeWrite => out_file = pre_run.out_file
    /\ out_file # pre_run.out_file => (RecreateReturned /\ pc # "replace_config_in_root")
    /\ pc = "done" => LiveIsNew

\* A run failed in the restoration and left a damaged store beside the output of
\* an earlier run.
C11_Witness ==
    /\ pc = "failed"
    /\ err_step = "restore"
    /\ ~LiveIsPreRun
    /\ out_file = StaleOutput

(***************************************************************************)
(* The empty ordering specification                                        *)
(***************************************************************************)
\* C12: with an empty ordering manifest, the Record Sequence of the run is, from
\* _sort_custom_config on, the sequence as loaded, and the merged output holds
\* it; and get_sorted_custom_config with an empty specification returns a
\* sequence equal to its input.
C12_EmptySpecificationIsNoOp ==
    /\ (HasOrderFile /\ Len(OrderNames) = 0 /\ SortExecuted)
       => (/\ _custom_config = Loaded
           /\ ~(pc = "failed" /\ err_step \in {"sort_custom_config", "sort"})
           /\ pc = "done" => out_file = MergedOutput(Loaded))
    /\ (Returned /\ Len(_ordering_data) = 0) => SortOutput = SortInput

\* A run with an empty manifest wrote the merged output with a loaded sequence in
\* which a group is not contiguous.
C12_Witness ==
    /\ pc = "done"
    /\ HasOrderFile
    /\ Len(OrderNames) = 0
    /\ Len(Loaded) = 3
    /\ ~Contiguous(Loaded)
    /\ out_file = MergedOutput(Loaded)

\* get_sorted_custom_config returned for an empty specification and an input of
\* several groups.
C12_SorterCase ==
    /\ Returned
    /\ ~CalledFromRun
    /\ Len(_ordering_data) = 0
    /\ Len(SortInput) = MaxRecords
    /\ SortOutput = SortInput

(***************************************************************************)
(* The temporary directory                                                 *)
(***************************************************************************)
\* C13: whenever _recreate_custom_config_files has ended, by returning or by an
\* exception of any of its steps, the temporary directory with the scratch build
\* and the backup is gone.
C13_TmpRemoved == (RecreateReturned \/ RecreateRaised) => tmp = Absent

\* The restoration failed in its last step, after the scratch build and the
\* backup had both been made, and the temporary directory is gone.
C13_Witness ==
    /\ pc = "failed"
    /\ err_step = "restore"
    /\ faults = MaxFaults
    /\ order_file = pre_run.order_file
    /\ groups_dir = Dir(EmptyMap)
    /\ groups_dir # pre_run.groups_dir
    /\ tmp = Absent

(***************************************************************************)
(* Invariants of the sorter                                                *)
(***************************************************************************)
\* The sequence the sorter holds: the one each pair is applied to, and the one
\* get_sorted_custom_config returns.
Current == sorter.custom_config

\* C14: if every group is contiguous in the input, then after each processed
\* pair and in the returned sequence every group is contiguous, whatever the
\* ordering specification.
C14_ContiguityPreserved ==
    (WellFormed(SortInput) /\ Contiguous(SortInput)) => Contiguous(Current)

\* The first pair of a specification of three names has moved a group behind a
\* group of two Records, in a contiguous input of three groups.
C14_Witness ==
    /\ pc = "sorting"
    /\ sorter.i = 2
    /\ Len(_ordering_data) = 3
    /\ Len(SortInput) = 4
    /\ WellFormed(SortInput)
    /\ Contiguous(SortInput)
    /\ Cardinality({SortInput[i].group : i \in 1..Len(SortInput)}) = 3
    /\ Len(Current) = 4
    /\ Current # SortInput
    /\ Cardinality(Positions(Current, _ordering_data[1])) = 2

\* The pair the next iteration of the loop is about.
PairPending == pc = "sorting" /\ sorter.i < Len(_ordering_data)
PendingGroup1 == _ordering_data[sorter.i]
PendingGroup2 == _ordering_data[sorter.i + 1]

\* The pending pair (G1, G2) finds Records of G2 and none of G1.
ReferenceMissing ==
    /\ PairPending
    /\ WellFormed(Current)
    /\ Positions(Current, PendingGroup2) # {}
    /\ Positions(Current, PendingGroup1) = {}

\* s without its positions a..b.
WithoutSpan(s, a, b) == SubSeq(s, 1, a - 1) \o SubSeq(s, b + 1, Len(s))

\* C15: a pair (G1, G2) that finds Records of G2 and none of G1 leaves the
\* sequence without the span from the first to the last Record of G2, goes on to
\* the next pair and notes G1 as missing; and no step of the sorter brings back a
\* Record the sequence has lost, so every later pair and the caller see the
\* sequence without those Records, and a later pair with G2 as its reference
\* group is a pair whose reference group has no Record.
C15_DroppedSpanStaysOut ==
    [][/\ ReferenceMissing =>
            (/\ Current' = WithoutSpan(Current,
                                       MinOf(Positions(Current, PendingGroup2)),
                                       MaxOf(Positions(Current, PendingGroup2)))
             /\ Positions(Current', PendingGroup2) = {}
             /\ pc' = "sorting"
             /\ sorter'.i = sorter.i + 1
             /\ PendingGroup1 \in sorter'.missing_groups)
       /\ Range(Current') \subseteq Range(Current)
       /\ sorter.missing_groups \subseteq sorter'.missing_groups]_vars

\* A specification of three names whose first has no Record: the first pair has
\* dropped the Records of the second name, the second pair found the second name
\* missing in turn and dropped those of the third.
C15_Witness ==
    /\ Returned
    /\ Len(_ordering_data) = 3
    /\ WellFormed(SortInput)
    /\ Positions(SortInput, _ordering_data[1]) = {}
    /\ Positions(SortInput, _ordering_data[2]) # {}
    /\ Positions(SortInput, _ordering_data[3]) # {}
    /\ _ordering_data[3] # _ordering_data[2]
    /\ SortOutput = <<>>
    /\ sorter.missing_groups = {_ordering_data[1], _ordering_data[2]}

(***************************************************************************)
(* A run on the tree a successful run has left                             *)
(***************************************************************************)
\* This run started on the tree a successful run left: its pre-run output is the
\* merged output of that run (a run's own output carries the main config of
\* main.json, the stale one does not).
AfterRun == pre_run.out_file.kind = "file" /\ pre_run.out_file # StaleOutput

\* The final Record Sequence of that earlier run, which its merged output holds.
PreviousSequence == pre_run.out_file.val.map.customConfig

GroupsIn(s) == {s[i].group : i \in 1..Len(s)}

\* C16: after a successful run the rewritten manifest has length 0 or >= 2, and
\* a run on the tree a successful run left never fails with the ValueError for
\* an ordering specification of length 1.
C16_RewrittenManifestIsValid ==
    /\ pc = "done" => Len(order_file.val.items) # 1
    /\ AfterRun => ~(pc = "failed" /\ error = "ValueError")

\* C17: a run on the tree left by a successful run whose final Record Sequence
\* has at least two groups, each contiguous, succeeds (no I/O fault) and ends
\* with that same Record Sequence, manifest, group files and merged output.
C17_RerunIsIdempotent ==
    (/\ AfterRun
     /\ Ended
     /\ NoFault
     /\ Cardinality(GroupsIn(PreviousSequence)) >= 2
     /\ Contiguous(PreviousSequence))
    => (/\ pc = "done"
        /\ _custom_config = PreviousSequence
        /\ order_file = pre_run.order_file
        /\ groups_dir = pre_run.groups_dir
        /\ out_file = pre_run.out_file)

\* The second run ended on a store whose manifest is not in the sorted order of
\* the file names, so that it had to sort what it loaded.
C17_Witness ==
    /\ AfterRun
    /\ pc = "done"
    /\ Len(PreviousSequence) = 3
    /\ Contiguous(PreviousSequence)
    /\ pre_run.order_file = File(JList(<<"y", "x">>))
    /\ Loaded # PreviousSequence
    /\ _custom_config = PreviousSequence

(***************************************************************************)
(* The sorter's Records                                                    *)
(***************************************************************************)
NoDuplicates(s) == \A i, j \in 1..Len(s) : s[i] = s[j] => i = j

\* C18: for every Record Sequence and ordering specification, after each
\* processed pair and in the returned sequence, every Record of the sorter's
\* sequence is a Record of the input and stands there once (the Records of the
\* input are pairwise distinct), so the sequence is a sub-multiset of the input
\* and no longer than it.
C18_NoInventedRecords ==
    /\ NoDuplicates(SortInput)
    /\ NoDuplicates(Current)
    /\ Range(Current) \subseteq Range(SortInput)
    /\ Len(Current) <= Len(SortInput)

\* A specification with a repeated name was applied to an input with a group
\* that is not contiguous; some Records are lost, others are left.
C18_Witness ==
    /\ Returned
    /\ WellFormed(SortInput)
    /\ ~Contiguous(SortInput)
    /\ ~NoRepeatedName(_ordering_data)
    /\ Len(SortInput) = MaxRecords
    /\ Len(SortOutput) \in 1..(MaxRecords - 1)

====
